---- MODULE Spec2Model ----
(***************************************************************************)
(* Folds and canonicalizations of the FIRRTL dialect                       *)
(* (lib/Dialect/FIRRTL/FIRRTLFolds.cpp), driven to a fixpoint over a small *)
(* IR graph.                                                               *)
(*                                                                         *)
(* An IR value is a node of the graph: a block argument, a constant or the *)
(* result of an operation.  A bit-vector is kept as its bit pattern, a     *)
(* natural number below 2^width; signedness is part of the type.           *)
(***************************************************************************)
EXTENDS Integers, Sequences, FiniteSets, TLC

\* ------------------------------------------------------------------ bounds
\* Largest width of a block argument or constant of the generated graphs.
MaxWidth == 2
\* Largest shift / pad amount of the generated shl, shr and pad operations.
MaxAmount == 3
\* Largest number of driver sweeps that changed the graph.
MaxPasses == 3
\* The input of the nested-bits scenario is 8 .. 8 + ExtraWidth bits wide.
ExtraWidth == 1

\* -------------------------------------------------------- program constants
\* getWidthOrSentinel() of a type whose width is not known.
Unknown == -1
\* The width DivPrimOp::fold picks when the result width is unknown.
DivGuessWidth == 2

\* ------------------------------------------------ bit-vector primitives
Pow2(n) == 2 ^ n

Max(a, b) == IF a >= b THEN a ELSE b

Min(a, b) == IF a <= b THEN a ELSE b

\* A bit index handed over as `unsigned` and stored as a 32-bit attribute:
\* inputWidth - 1 at inputWidth = 0 is the all-ones word, kept here as -1, the
\* same 32 bits.  It is no index of any value.
ToUnsigned(i) == i

\* The number a pattern of `w` bits stands for, by signedness.
Num(sgn, w, v) == IF sgn /\ w > 0 /\ v >= Pow2(w - 1) THEN v - Pow2(w) ELSE v

\* The pattern of `w` bits of the integer i (two's complement).
Pat(w, i) == i % Pow2(w)

\* Bitwise combination of two patterns of w bits; f is the table of one bit.
RECURSIVE BitOp(_, _, _, _)
BitOp(f, w, a, b) ==
  IF w = 0 THEN 0
  ELSE f[a % 2][b % 2] + 2 * BitOp(f, w - 1, a \div 2, b \div 2)

AndBit == [x \in 0..1 |-> [y \in 0..1 |-> IF x = 1 /\ y = 1 THEN 1 ELSE 0]]
OrBit == [x \in 0..1 |-> [y \in 0..1 |-> IF x = 1 \/ y = 1 THEN 1 ELSE 0]]
XorBit == [x \in 0..1 |-> [y \in 0..1 |-> IF x # y THEN 1 ELSE 0]]

\* llvm::APInt: a width and a pattern.
APInt(bw, v) == [bw |-> bw, val |-> v % Pow2(bw)]

isNullValue(a) == a.val = 0
isAllOnesValue(a) == a.val = Pow2(a.bw) - 1
isOneValue(a) == a.val = 1

\* APInt::lshr: a shift by the whole width or more leaves zero.
lshr(a, n) == [bw |-> a.bw, val |-> IF n >= a.bw THEN 0 ELSE a.val \div Pow2(n)]

\* APInt::ashr: the sign bit is shifted in.
ashr(a, n) ==
  LET s == Num(TRUE, a.bw, a.val)
      k == Min(n, a.bw)
      q == IF s >= 0 THEN s \div Pow2(k) ELSE -((-s + Pow2(k) - 1) \div Pow2(k))
  IN [bw |-> a.bw, val |-> Pat(a.bw, q)]

shl(a, n) == [bw |-> a.bw, val |-> IF n >= a.bw THEN 0 ELSE (a.val * Pow2(n)) % Pow2(a.bw)]

zext(a, width) == [bw |-> width, val |-> a.val]

sext(a, width) == [bw |-> width, val |-> Pat(width, Num(TRUE, a.bw, a.val))]

truncOrSelf(a, width) ==
  IF a.bw > width THEN [bw |-> width, val |-> a.val % Pow2(width)] ELSE a

\* ------------------------------------------------------------ the IR graph
\* Operator kinds with a fold or a canonicalization in the file.
BinaryKinds == {"div", "and", "or", "xor", "eq", "neq"}
AmountKinds == {"head", "tail", "pad", "shl", "shr"}
CastKinds == {"asSInt", "asUInt"}
ConversionKinds == {"stdIntCast", "analogInOutCast", "asPassive", "asNonPassive"}
LeafKinds == {"arg", "const"}

\* A node: kind, operand ids, integer attributes, the declared result type
\* (sgn, w; w = Unknown when the width is not known), the width the value
\* really has (rw; for a constant the width of its APInt) and, for a
\* constant, its pattern. dom is the family of the type: "int" for the
\* passive FIRRTL integers UInt and SInt every primitive works on.
Node(kind, ops, hi, lo, amount, sgn, w, rw, val) ==
  [kind |-> kind, ops |-> ops, hi |-> hi, lo |-> lo, amount |-> amount,
   dom |-> "int", sgn |-> sgn, w |-> w, rw |-> rw, val |-> val]

Arg(sgn, w, rw) == Node("arg", <<>>, 0, 0, 0, sgn, w, rw, 0)

Const(sgn, w, rw, val) == Node("const", <<>>, 0, 0, 0, sgn, w, rw, val)

IntType(sgn, w) == [sgn |-> sgn, w |-> w]

\* A type of any family: a standard integer ("std"), an analog ("analog"), an
\* inout ("inout") and a flipped integer ("flip") beside IntType.
Type(dom, sgn, w) ==
  IF dom = "int" THEN IntType(sgn, w) ELSE [dom |-> dom, sgn |-> sgn, w |-> w]

\* getType(): types are uniqued, so equal types are equal records.
TypeOf(nd) == Type(nd.dom, nd.sgn, nd.w)

\* Width arithmetic that keeps an unknown width unknown.
WMax(a, b) == IF a = Unknown \/ b = Unknown THEN Unknown ELSE Max(a, b)
WAdd(a, b) == IF a = Unknown \/ b = Unknown THEN Unknown ELSE a + b

\* The result type the dialect gives an operation, from its operand types and
\* attributes (uint for the bitwise, comparison and slicing operators; the
\* operand's signedness otherwise).
ResultType(kind, tys, hi, lo, amount) ==
  CASE kind = "div" ->
         IntType(tys[1].sgn, IF tys[1].sgn THEN WAdd(tys[1].w, 1) ELSE tys[1].w)
    [] kind \in {"and", "or", "xor"} -> IntType(FALSE, WMax(tys[1].w, tys[2].w))
    [] kind \in {"eq", "neq"} -> IntType(FALSE, 1)
    [] kind = "asSInt" -> IntType(TRUE, tys[1].w)
    [] kind = "asUInt" -> IntType(FALSE, tys[1].w)
    [] kind = "cat" -> IntType(FALSE, WAdd(tys[1].w, tys[2].w))
    [] kind = "bits" -> IntType(FALSE, hi - lo + 1)
    [] kind = "head" -> IntType(FALSE, amount)
    [] kind = "tail" ->
         IntType(FALSE, IF tys[1].w = Unknown THEN Unknown ELSE tys[1].w - amount)
    [] kind = "mux" -> IntType(tys[2].sgn, WMax(tys[2].w, tys[3].w))
    [] kind = "pad" ->
         IntType(tys[1].sgn, IF tys[1].w = Unknown THEN Unknown ELSE Max(tys[1].w, amount))
    [] kind = "shl" -> IntType(tys[1].sgn, WAdd(tys[1].w, amount))
    [] kind = "shr" ->
         IntType(tys[1].sgn,
                 IF tys[1].w = Unknown THEN Unknown ELSE Max(tys[1].w - amount, 1))

\* An operation node over the operands `ops` of graph g, typed by the dialect.
\* (rw and val are kept for the leaves only.)
Op(g, kind, ops, hi, lo, amount) ==
  LET dt == ResultType(kind, [i \in DOMAIN ops |-> TypeOf(g[ops[i]])], hi, lo, amount)
  IN Node(kind, ops, hi, lo, amount, dt.sgn, dt.w, 0, 0)

IsOp(nd) == nd.kind \notin LeafKinds

\* The accessors of the operation classes.
lhs(g, n) == g[n].ops[1]
rhs(g, n) == g[n].ops[2]
input(g, n) == g[n].ops[1]
sel(g, n) == g[n].ops[1]
high(g, n) == g[n].ops[2]
low(g, n) == g[n].ops[3]

getOperand(g, n) == g[n].ops[1]

\* getDefiningOp() and dyn_cast_or_null<BitsPrimOp>.
DefinedByBits(g, v) == g[v].kind = "bits"

\* ---------------------------------------------------------------- fold hooks
\* An OpFoldResult: nothing, an existing value, or an attribute (a constant
\* the driver materializes with the operation's result type).
NoFold == [tag |-> "none", id |-> 0, bw |-> 0, val |-> 0]
FoldValue(v) == [tag |-> "value", id |-> v, bw |-> 0, val |-> 0]
FoldAttr(a) == [tag |-> "attr", id |-> 0, bw |-> a.bw, val |-> a.val]

\* matchPattern(v, m_FConstant(value)): v is the result of a ConstantOp.
m_FConstant(g, v) == g[v].kind = "const"

\* The APInt ConstantIntMatcher binds.
value(g, v) == [bw |-> g[v].rw, val |-> g[v].val]

\* getIntAttr: an IntegerAttr of the width of the APInt.
getIntAttr(a) == FoldAttr(a)

\* mlir::constFoldBinaryOp<IntegerAttr>: both operands are constant
\* attributes of one type, or there is no fold.
constFoldBinaryOp(g, n, f) ==
  LET a == value(g, lhs(g, n))
      b == value(g, rhs(g, n))
  IN IF m_FConstant(g, lhs(g, n)) /\ m_FConstant(g, rhs(g, n)) /\ a.bw = b.bw
     THEN FoldAttr([bw |-> a.bw, val |-> BitOp(f, a.bw, a.val, b.val)])
     ELSE NoFold

DivPrimOp_fold(g, n) ==
  IF lhs(g, n) = rhs(g, n)
  THEN LET width == IF g[n].w = Unknown THEN DivGuessWidth ELSE g[n].w
       IN \* IntegerAttr::get(IntegerType::get(ctx, width), 1)
          FoldAttr([bw |-> width, val |-> 1])
  ELSE IF /\ m_FConstant(g, rhs(g, n))
          /\ isOneValue(value(g, rhs(g, n)))
          /\ TypeOf(g[lhs(g, n)]) = TypeOf(g[n])
       THEN FoldValue(lhs(g, n))
       ELSE NoFold

AndPrimOp_fold(g, n) ==
  LET l == lhs(g, n)
      r == rhs(g, n)
      ty == TypeOf(g[n])
  IN IF m_FConstant(g, r) /\ isNullValue(value(g, r)) /\ TypeOf(g[r]) = ty
     THEN FoldValue(r)
     ELSE IF /\ m_FConstant(g, r) /\ isAllOnesValue(value(g, r))
             /\ TypeOf(g[l]) = ty /\ TypeOf(g[r]) = ty
     THEN FoldValue(l)
     ELSE IF l = r /\ TypeOf(g[r]) = ty
     THEN FoldValue(r)
     ELSE constFoldBinaryOp(g, n, AndBit)

OrPrimOp_fold(g, n) ==
  LET l == lhs(g, n)
      r == rhs(g, n)
      ty == TypeOf(g[n])
  IN IF m_FConstant(g, r) /\ isNullValue(value(g, r)) /\ TypeOf(g[l]) = ty
     THEN FoldValue(l)
     ELSE IF /\ m_FConstant(g, r) /\ isAllOnesValue(value(g, r))
             /\ TypeOf(g[r]) = ty /\ TypeOf(g[l]) = ty
     THEN FoldValue(r)
     ELSE IF l = r /\ TypeOf(g[r]) = ty
     THEN FoldValue(r)
     ELSE constFoldBinaryOp(g, n, OrBit)

\* abs(getType().getWidthOrSentinel())
AbsWidth(w) == IF w < 0 THEN -w ELSE w

XorPrimOp_fold(g, n) ==
  LET l == lhs(g, n)
      r == rhs(g, n)
      ty == TypeOf(g[n])
      width == AbsWidth(g[n].w)
  IN IF m_FConstant(g, r) /\ isNullValue(value(g, r)) /\ TypeOf(g[l]) = ty
     THEN FoldValue(l)
     ELSE IF l = r /\ width # 0
     THEN getIntAttr(APInt(width, 0))
     ELSE constFoldBinaryOp(g, n, XorBit)

EQPrimOp_fold(g, n) ==
  LET l == lhs(g, n)
      r == rhs(g, n)
      ty == TypeOf(g[n])
  IN IF ~m_FConstant(g, r) THEN NoFold
     ELSE IF m_FConstant(g, l) /\ value(g, r).bw = value(g, l).bw
     THEN getIntAttr(APInt(1, IF value(g, r) = value(g, l) THEN 1 ELSE 0))
     ELSE IF isAllOnesValue(value(g, r)) /\ TypeOf(g[l]) = ty /\ TypeOf(g[r]) = ty
     THEN FoldValue(l)
     ELSE NoFold

NEQPrimOp_fold(g, n) ==
  LET l == lhs(g, n)
      r == rhs(g, n)
      ty == TypeOf(g[n])
  IN IF ~m_FConstant(g, r) THEN NoFold
     ELSE IF m_FConstant(g, l) /\ value(g, r).bw = value(g, l).bw
     THEN getIntAttr(APInt(1, IF value(g, r) # value(g, l) THEN 1 ELSE 0))
     ELSE IF isNullValue(value(g, r)) /\ TypeOf(g[l]) = ty /\ TypeOf(g[r]) = ty
     THEN FoldValue(l)
     ELSE NoFold

AsSIntPrimOp_fold(g, n) ==
  IF m_FConstant(g, input(g, n)) THEN getIntAttr(value(g, input(g, n))) ELSE NoFold

AsUIntPrimOp_fold(g, n) ==
  IF m_FConstant(g, input(g, n)) THEN getIntAttr(value(g, input(g, n))) ELSE NoFold

\* BitsPrimOp::fold without the rule for a slice of the entire input.
BitsPrimOp_fold_ConstantOnly(g, n) ==
  LET i == input(g, n)
  IN IF g[i].w # Unknown /\ m_FConstant(g, i)
     THEN getIntAttr(truncOrSelf(lshr(value(g, i), g[n].lo), g[n].hi - g[n].lo + 1))
     ELSE NoFold

BitsPrimOp_fold(g, n) ==
  LET i == input(g, n)
  IN IF TypeOf(g[i]) = TypeOf(g[n]) /\ g[i].w # Unknown
     THEN FoldValue(i)
     ELSE IF g[i].w # Unknown /\ m_FConstant(g, i)
     THEN getIntAttr(truncOrSelf(lshr(value(g, i), g[n].lo), g[n].hi - g[n].lo + 1))
     ELSE NoFold

MuxPrimOp_fold(g, n) ==
  LET s == sel(g, n)
      h == high(g, n)
      l == low(g, n)
      ty == TypeOf(g[n])
  IN IF m_FConstant(g, s) /\ isNullValue(value(g, s)) /\ TypeOf(g[l]) = ty
     THEN FoldValue(l)
     ELSE IF m_FConstant(g, s) /\ ~isNullValue(value(g, s)) /\ TypeOf(g[h]) = ty
     THEN FoldValue(h)
     ELSE IF h = l
     THEN FoldValue(h)
     ELSE IF /\ m_FConstant(g, l) /\ m_FConstant(g, h)
             /\ isOneValue(value(g, h)) /\ isNullValue(value(g, l))
             /\ ty = TypeOf(g[s])
     THEN FoldValue(s)
     ELSE NoFold

PadPrimOp_fold(g, n) ==
  LET i == input(g, n)
      width == g[i].w
      destWidth == g[n].w
  IN IF TypeOf(g[i]) = TypeOf(g[n]) THEN FoldValue(i)
     ELSE IF width = Unknown THEN NoFold
     ELSE IF ~m_FConstant(g, i) THEN NoFold
     ELSE IF destWidth = Unknown THEN NoFold
     ELSE IF g[i].sgn THEN getIntAttr(sext(value(g, i), destWidth))
     ELSE getIntAttr(zext(value(g, i), destWidth))

ShlPrimOp_fold(g, n) ==
  LET i == input(g, n)
      shiftAmount == g[n].amount
      inputWidth == g[i].w
      resultWidth == inputWidth + shiftAmount
  IN IF shiftAmount = 0 THEN FoldValue(i)
     ELSE IF m_FConstant(g, i) /\ inputWidth # Unknown
     THEN getIntAttr(shl(zext(value(g, i), resultWidth), Min(shiftAmount, resultWidth)))
     ELSE NoFold

\* ShrPrimOp::fold that shifts a signed constant logically.
ShrPrimOp_fold_Logical(g, n) ==
  LET i == input(g, n)
      shiftAmount == g[n].amount
      inputWidth == g[i].w
      resultWidth == Max(inputWidth - shiftAmount, 1)
  IN IF shiftAmount = 0 THEN FoldValue(i)
     ELSE IF inputWidth = Unknown THEN NoFold
     ELSE IF shiftAmount >= inputWidth /\ ~g[i].sgn THEN getIntAttr(APInt(1, 0))
     ELSE IF ~m_FConstant(g, i) THEN NoFold
     ELSE getIntAttr(truncOrSelf(lshr(value(g, i), Min(shiftAmount, inputWidth)), resultWidth))

ShrPrimOp_fold(g, n) ==
  LET i == input(g, n)
      shiftAmount == g[n].amount
      inputWidth == g[i].w
      resultWidth == Max(inputWidth - shiftAmount, 1)
  IN IF shiftAmount = 0 THEN FoldValue(i)
     ELSE IF inputWidth = Unknown THEN NoFold
     ELSE IF shiftAmount >= inputWidth /\ ~g[i].sgn THEN getIntAttr(APInt(1, 0))
     ELSE IF ~m_FConstant(g, i) THEN NoFold
     ELSE IF ~g[i].sgn
     THEN getIntAttr(truncOrSelf(lshr(value(g, i), Min(shiftAmount, inputWidth)), resultWidth))
     ELSE getIntAttr(truncOrSelf(ashr(value(g, i), Min(shiftAmount, inputWidth - 1)), resultWidth))

\* getOperand().getDefiningOp() is a conversion of the given kind whose own
\* operand has the type of the result of n.
UndoesConversion(g, n, kind) ==
  /\ g[getOperand(g, n)].kind = kind
  /\ TypeOf(g[getOperand(g, getOperand(g, n))]) = TypeOf(g[n])

StdIntCastOp_fold(g, n) ==
  IF UndoesConversion(g, n, "stdIntCast")
  THEN FoldValue(getOperand(g, getOperand(g, n)))
  ELSE NoFold

AnalogInOutCastOp_fold(g, n) ==
  IF UndoesConversion(g, n, "analogInOutCast")
  THEN FoldValue(getOperand(g, getOperand(g, n)))
  ELSE NoFold

AsPassivePrimOp_fold(g, n) ==
  IF TypeOf(g[getOperand(g, n)]) = TypeOf(g[n]) THEN FoldValue(getOperand(g, n))
  ELSE IF UndoesConversion(g, n, "asNonPassive")
  THEN FoldValue(getOperand(g, getOperand(g, n)))
  ELSE NoFold

AsNonPassivePrimOp_fold(g, n) ==
  IF UndoesConversion(g, n, "asPassive")
  THEN FoldValue(getOperand(g, getOperand(g, n)))
  ELSE NoFold

\* The fold hook of the operation at node n; head, tail and cat have none.
fold(g, n) ==
  CASE g[n].kind = "div" -> DivPrimOp_fold(g, n)
    [] g[n].kind = "and" -> AndPrimOp_fold(g, n)
    [] g[n].kind = "or" -> OrPrimOp_fold(g, n)
    [] g[n].kind = "xor" -> XorPrimOp_fold(g, n)
    [] g[n].kind = "eq" -> EQPrimOp_fold(g, n)
    [] g[n].kind = "neq" -> NEQPrimOp_fold(g, n)
    [] g[n].kind = "asSInt" -> AsSIntPrimOp_fold(g, n)
    [] g[n].kind = "asUInt" -> AsUIntPrimOp_fold(g, n)
    [] g[n].kind = "bits" -> BitsPrimOp_fold(g, n)
    [] g[n].kind = "mux" -> MuxPrimOp_fold(g, n)
    [] g[n].kind = "pad" -> PadPrimOp_fold(g, n)
    [] g[n].kind = "shl" -> ShlPrimOp_fold(g, n)
    [] g[n].kind = "shr" -> ShrPrimOp_fold(g, n)
    [] g[n].kind = "stdIntCast" -> StdIntCastOp_fold(g, n)
    [] g[n].kind = "analogInOutCast" -> AnalogInOutCastOp_fold(g, n)
    [] g[n].kind = "asPassive" -> AsPassivePrimOp_fold(g, n)
    [] g[n].kind = "asNonPassive" -> AsNonPassivePrimOp_fold(g, n)
    [] OTHER -> NoFold

\* ------------------------------------------------------ the pattern rewriter
\* The next free node id.
FreshId(g) == (CHOOSE m \in DOMAIN g : \A k \in DOMAIN g : k <= m) + 1

\* rewriter.replaceOp(op, v): every use of op now uses v, and op is erased.
replaceOp(g, n, v) ==
  [k \in DOMAIN g \ {n} |->
     [g[k] EXCEPT !.ops = [j \in DOMAIN g[k].ops |->
                             IF g[k].ops[j] = n THEN v ELSE g[k].ops[j]]]]

\* A graph after a rewriter call, and the value the call made.
Built(g, v) == [g |-> g, v |-> v]

\* rewriter.create<BitsPrimOp>(loc, value, hi, lo): the result type is inferred.
createBits(g, v, hi, lo) ==
  Built(g @@ (FreshId(g) :> Op(g, "bits", <<v>>, hi, lo, 0)), FreshId(g))

\* rewriter.createOrFold<AsSIntPrimOp / AsUIntPrimOp>(loc, resType, value): the
\* cast is created with the given type; when its fold hook yields an attribute
\* a constant of that type takes its place.
createOrFoldCast(g, kind, resType, v) ==
  LET id == FreshId(g)
      withOp == g @@ (id :> Node(kind, <<v>>, 0, 0, 0, resType.sgn, resType.w, 0, 0))
      r == fold(withOp, id)
  IN IF r.tag = "attr"
     THEN Built(g @@ (id :> Const(resType.sgn, resType.w, r.bw, r.val)), id)
     ELSE Built(withOp, id)

\* What matchAndRewrite did: its LogicalResult, whether it replaced the
\* operation, the replacement value and the graph it leaves.
Rewrite(matched, replaced, repl, g) ==
  [matched |-> matched, replaced |-> replaced, repl |-> repl, g |-> g]

failure(g) == Rewrite(FALSE, FALSE, 0, g)

\* replaceWithBits without the cast to the signedness of the result.
replaceWithBits_NoCast(g, n, v, hiBit, loBit) ==
  LET resType == TypeOf(g[n])
      b1 == IF g[v].w # resType.w THEN createBits(g, v, hiBit, loBit) ELSE Built(g, v)
  IN Rewrite(TRUE, TRUE, b1.v, replaceOp(b1.g, n, b1.v))

replaceWithBits(g, n, v, hiBit, loBit) ==
  LET resType == TypeOf(g[n])
      b1 == IF g[v].w # resType.w THEN createBits(g, v, hiBit, loBit) ELSE Built(g, v)
      b2 == IF resType.sgn /\ ~b1.g[b1.v].sgn
            THEN createOrFoldCast(b1.g, "asSInt", resType, b1.v)
            ELSE IF ~resType.sgn /\ b1.g[b1.v].sgn
            THEN createOrFoldCast(b1.g, "asUInt", resType, b1.v)
            ELSE b1
  IN Rewrite(TRUE, TRUE, b2.v, replaceOp(b2.g, n, b2.v))

CatPrimOp_matchAndRewrite(g, n) ==
  LET l == lhs(g, n)
      r == rhs(g, n)
  IN IF /\ DefinedByBits(g, l) /\ DefinedByBits(g, r)
        /\ input(g, l) = input(g, r)
        /\ g[l].lo - 1 = g[r].hi
     THEN LET id == FreshId(g)
              new == Node("bits", <<input(g, l)>>, g[l].hi, g[r].lo, 0,
                          g[n].sgn, g[n].w, 0, 0)
          IN Rewrite(TRUE, TRUE, id, replaceOp(g @@ (id :> new), n, id))
     ELSE failure(g)

\* The bits-of-bits pattern that forgets the low bit of the inner slice.
BitsPrimOp_matchAndRewrite_OuterBounds(g, n) ==
  LET inner == input(g, n)
  IN IF DefinedByBits(g, inner)
     THEN LET b == createBits(g, input(g, inner), g[n].hi, g[n].lo)
          IN Rewrite(TRUE, TRUE, b.v, replaceOp(b.g, n, b.v))
     ELSE failure(g)

BitsPrimOp_matchAndRewrite(g, n) ==
  LET inner == input(g, n)
  IN IF DefinedByBits(g, inner)
     THEN LET newLo == g[n].lo + g[inner].lo
              newHi == newLo + g[n].hi - g[n].lo
              b == createBits(g, input(g, inner), newHi, newLo)
          IN Rewrite(TRUE, TRUE, b.v, replaceOp(b.g, n, b.v))
     ELSE failure(g)

HeadPrimOp_matchAndRewrite(g, n) ==
  LET inputWidth == g[input(g, n)].w
      keepAmount == g[n].amount
  IN IF inputWidth = Unknown THEN failure(g)
     ELSE IF keepAmount # 0
     THEN replaceWithBits(g, n, input(g, n), ToUnsigned(inputWidth - 1),
                          ToUnsigned(inputWidth - keepAmount))
     ELSE \* return success() with nothing replaced
          Rewrite(TRUE, FALSE, 0, g)

ShrPrimOp_matchAndRewrite(g, n) ==
  LET inputWidth == g[input(g, n)].w
      amount == g[n].amount
  IN IF inputWidth = Unknown THEN failure(g)
     ELSE IF amount >= inputWidth /\ ~g[n].sgn THEN failure(g)
     ELSE LET shiftAmount == IF amount >= inputWidth
                             THEN ToUnsigned(inputWidth - 1) ELSE amount
          IN replaceWithBits(g, n, input(g, n), ToUnsigned(inputWidth - 1), shiftAmount)

TailPrimOp_matchAndRewrite(g, n) ==
  LET inputWidth == g[input(g, n)].w
      dropAmount == g[n].amount
  IN IF inputWidth = Unknown THEN failure(g)
     ELSE IF dropAmount # inputWidth
     THEN replaceWithBits(g, n, input(g, n), ToUnsigned(inputWidth - dropAmount - 1), 0)
     ELSE \* return success() with nothing replaced
          Rewrite(TRUE, FALSE, 0, g)

\* The canonicalization pattern registered for the operation at node n.
canonicalize(g, n) ==
  CASE g[n].kind = "cat" -> CatPrimOp_matchAndRewrite(g, n)
    [] g[n].kind = "bits" -> BitsPrimOp_matchAndRewrite(g, n)
    [] g[n].kind = "head" -> HeadPrimOp_matchAndRewrite(g, n)
    [] g[n].kind = "shr" -> ShrPrimOp_matchAndRewrite(g, n)
    [] g[n].kind = "tail" -> TailPrimOp_matchAndRewrite(g, n)
    [] OTHER -> failure(g)

\* ------------------------------------------------ reference semantics
\* The width a value really has, from the leaves up (FIRRTL's width rules).
RECURSIVE Width(_, _)
Width(g, v) ==
  LET nd == g[v]
      k == nd.kind
      w1 == Width(g, nd.ops[1])
      w2 == Width(g, nd.ops[2])
      w3 == Width(g, nd.ops[3])
  IN CASE k \in LeafKinds -> nd.rw
       [] k = "div" -> IF nd.sgn THEN w1 + 1 ELSE w1
       [] k \in {"and", "or", "xor"} -> Max(w1, w2)
       [] k \in {"eq", "neq"} -> 1
       [] k \in CastKinds -> w1
       [] k = "cat" -> w1 + w2
       [] k = "bits" -> nd.hi - nd.lo + 1
       [] k = "head" -> nd.amount
       [] k = "tail" -> w1 - nd.amount
       [] k = "mux" -> Max(w2, w3)
       [] k = "pad" -> Max(w1, nd.amount)
       [] k = "shl" -> w1 + nd.amount
       [] k = "shr" -> Max(w1 - nd.amount, 1)

\* Extension of a pattern of w bits to `to` >= w bits: sign extension of a
\* signed value, zero extension of an unsigned one.
Extend(sgn, w, v, to) == Pat(to, Num(sgn, w, v))

\* Integer division that truncates toward zero.
TruncDiv(a, b) ==
  LET q == (IF a < 0 THEN -a ELSE a) \div (IF b < 0 THEN -b ELSE b)
  IN IF (a < 0) = (b < 0) THEN q ELSE -q

\* Floor of s / 2^k.
FloorShift(s, k) ==
  IF s >= 0 THEN s \div Pow2(k) ELSE -((-s + Pow2(k) - 1) \div Pow2(k))

\* The pattern the value v has when the block arguments hold env.
RECURSIVE Eval(_, _, _)
Eval(g, v, env) ==
  LET nd == g[v]
      k == nd.kind
      a == Eval(g, nd.ops[1], env)
      b == Eval(g, nd.ops[2], env)
      c == Eval(g, nd.ops[3], env)
      wa == Width(g, nd.ops[1])
      wb == Width(g, nd.ops[2])
      wc == Width(g, nd.ops[3])
      sa == g[nd.ops[1]].sgn
      sb == g[nd.ops[2]].sgn
      sc == g[nd.ops[3]].sgn
      w == Width(g, v)
  IN CASE k = "arg" -> env[v]
       [] k = "const" -> nd.val
       [] k = "div" ->
            IF Num(sb, wb, b) = 0 THEN 0
            ELSE Pat(w, TruncDiv(Num(sa, wa, a), Num(sb, wb, b)))
       [] k = "and" -> BitOp(AndBit, w, Extend(sa, wa, a, w), Extend(sb, wb, b, w))
       [] k = "or" -> BitOp(OrBit, w, Extend(sa, wa, a, w), Extend(sb, wb, b, w))
       [] k = "xor" -> BitOp(XorBit, w, Extend(sa, wa, a, w), Extend(sb, wb, b, w))
       [] k = "eq" -> IF Num(sa, wa, a) = Num(sb, wb, b) THEN 1 ELSE 0
       [] k = "neq" -> IF Num(sa, wa, a) # Num(sb, wb, b) THEN 1 ELSE 0
       [] k \in CastKinds -> a
       [] k = "cat" -> a * Pow2(wb) + b
       [] k = "bits" -> IF nd.lo < 0 \/ nd.lo >= wa THEN 0 ELSE (a \div Pow2(nd.lo)) % Pow2(w)
       [] k = "head" -> a \div Pow2(wa - nd.amount)
       [] k = "tail" -> a % Pow2(w)
       [] k = "mux" -> IF a # 0 THEN Extend(sb, wb, b, w) ELSE Extend(sc, wc, c, w)
       [] k = "pad" -> Extend(sa, wa, a, w)
       [] k = "shl" -> a * Pow2(nd.amount)
       [] k = "shr" -> Pat(w, FloorShift(Num(sa, wa, a), Min(nd.amount, wa)))

\* FIRRTL leaves division by zero undefined.
RECURSIVE Defined(_, _, _)
Defined(g, v, env) ==
  /\ \A j \in DOMAIN g[v].ops : Defined(g, g[v].ops[j], env)
  /\ g[v].kind = "div" =>
       Num(g[rhs(g, v)].sgn, Width(g, rhs(g, v)), Eval(g, rhs(g, v), env)) # 0

\* The block arguments a value depends on.
RECURSIVE ArgsOf(_, _)
ArgsOf(g, v) ==
  IF g[v].kind = "arg" THEN {v}
  ELSE UNION {ArgsOf(g, g[v].ops[j]) : j \in DOMAIN g[v].ops}

\* Every assignment of patterns to the block arguments of the graph.
Envs(g) ==
  LET args == {v \in DOMAIN g : g[v].kind = "arg"}
      top == IF args = {} THEN 0
             ELSE CHOOSE m \in {g[v].rw : v \in args} : \A v \in args : g[v].rw <= m
  IN {e \in [args -> 0..(Pow2(top) - 1)] : \A v \in args : e[v] < Pow2(g[v].rw)}

\* ------------------------------------------------------------------ state
VARIABLES
  nodes,     \* the IR graph: node id -> node; node 0 is the user of the result
  worklist,  \* operations the driver has still to visit in this sweep
  dirty,     \* an operation reported a change in this sweep
  passes,    \* completed sweeps that reported a change
  pc,        \* "run" until a sweep reports no change, then "done"
  last       \* what the last visit did

vars == <<nodes, worklist, dirty, passes, pc, last>>

\* The operations of the graph (not the leaves, not the user).
Ops(g) == {v \in DOMAIN g : g[v].kind \notin LeafKinds \union {"output"}}

\* The value the user at node 0 reads.
Root(g) == g[0].ops[1]

Output(v) == Node("output", <<v>>, 0, 0, 0, FALSE, 0, 0, 0)

Graph(seq) == [i \in 0..(Len(seq) - 1) |-> seq[i + 1]]

Idle ==
  [status |-> "idle", n |-> 0, op |-> Output(0), res |-> NoFold,
   replaced |-> FALSE, repl |-> 0, changed |-> FALSE]

\* ------------------------------------------------------- initial graphs
Widths == 0..MaxWidth

ArgLeaves ==
  {Arg(s, w, rw) : s \in BOOLEAN, w \in {Unknown}, rw \in Widths}
    \union {Arg(s, w, w) : s \in BOOLEAN, w \in Widths}

\* A ConstantOp: an APInt has at least one bit.
ConstLeaves ==
  UNION {{Const(s, w, w, v) : v \in 0..(Pow2(w) - 1)} :
           s \in BOOLEAN, w \in 1..MaxWidth}

Leaves == ArgLeaves \union ConstLeaves

\* A one-bit unsigned selector.
Selectors == {Arg(FALSE, 1, 1), Const(FALSE, 1, 1, 0), Const(FALSE, 1, 1, 1)}

\* The attributes the verifier accepts for a unary operation on a value of
\* (real) width w.
Attrs(kind, w) ==
  CASE kind = "bits" -> {<<h, l, 0>> : h \in 0..(w - 1), l \in 0..(w - 1)}
    [] kind \in {"head", "tail"} -> {<<0, 0, a>> : a \in 0..w}
    [] kind \in {"pad", "shl", "shr"} -> {<<0, 0, a>> : a \in 0..MaxAmount}
    [] kind \in CastKinds -> {<<0, 0, 0>>}

LegalAttrs(kind, w) == {t \in Attrs(kind, w) : t[1] >= t[2]}

UnaryKinds == {"bits", "head", "tail", "pad", "shl", "shr", "asSInt", "asUInt"}

\* g with one more operation of `kind` on the value v, under every legal
\* choice of attributes.
WithUnary(g, kind, v) ==
  {g @@ (FreshId(g) :> Op(g, kind, <<v>>, t[1], t[2], t[3])) :
     t \in LegalAttrs(kind, Width(g, v))}

\* user <- op(a)
UnaryGraphs ==
  UNION {WithUnary(Graph(<<Output(2), a>>), kind, 1) : kind \in UnaryKinds, a \in Leaves}

\* user <- op(a, b) and user <- op(a, a)
BinaryGraphs ==
  LET pairs == {p \in Leaves \X Leaves : p[1].sgn = p[2].sgn}
  IN {LET g == Graph(<<Output(3), p[1], p[2]>>)
      IN g @@ (3 :> Op(g, kind, <<1, 2>>, 0, 0, 0)) : kind \in BinaryKinds, p \in pairs}
       \union
     {LET g == Graph(<<Output(2), a>>)
      IN g @@ (2 :> Op(g, kind, <<1, 1>>, 0, 0, 0)) : kind \in BinaryKinds, a \in Leaves}

\* user <- mux(s, a, b) and user <- mux(s, a, a)
MuxGraphs ==
  LET pairs == {p \in Leaves \X Leaves : p[1].sgn = p[2].sgn}
  IN {LET g == Graph(<<Output(4), s, p[1], p[2]>>)
      IN g @@ (4 :> Op(g, "mux", <<1, 2, 3>>, 0, 0, 0)) : s \in Selectors, p \in pairs}
       \union
     {LET g == Graph(<<Output(3), s, a>>)
      IN g @@ (3 :> Op(g, "mux", <<1, 2, 2>>, 0, 0, 0)) : s \in Selectors, a \in Leaves}

\* Operators with a canonicalization pattern.
ChainKinds == {"bits", "head", "tail", "shr"}

\* user <- outer(inner(x))
ChainGraphs ==
  UNION {UNION {{[h EXCEPT ![0] = Output(3)] : h \in WithUnary(g, outer, 2)} :
                  g \in WithUnary(Graph(<<Output(2), x>>), inner, 1)} :
           inner \in ChainKinds, outer \in ChainKinds, x \in ArgLeaves}

\* user <- cat(bits(x or y), bits(x or y)); x and y have one type
CatGraphs ==
  UNION {UNION {UNION {{h @@ (5 :> Op(h, "cat", <<3, 4>>, 0, 0, 0)) :
                          h \in WithUnary(g, "bits", j)} :
                         g \in WithUnary(Graph(<<Output(5), x, x>>), "bits", i)} :
                  i \in 1..2, j \in 1..2} :
           x \in ArgLeaves}

\* The types of one family.
TypesOf(dom) ==
  CASE dom \in {"int", "flip"} -> {[dom |-> dom, sgn |-> s, w |-> w] : s \in BOOLEAN, w \in Widths}
    [] dom \in {"std", "inout"} -> {[dom |-> dom, sgn |-> FALSE, w |-> w] : w \in Widths}
    [] dom = "analog" -> {[dom |-> dom, sgn |-> FALSE, w |-> w] : w \in Widths \union {Unknown}}

\* The operand and result types the verifier accepts for a conversion: a
\* standard integer and a FIRRTL integer of one width, an analog and an inout
\* of one width (or an analog of unknown width), a type and its passive form.
LegalConversion(kind, from, to) ==
  LET sameWidth == from.w = to.w \/ (Unknown \in {from.w, to.w} /\ "analog" \in {from.dom, to.dom})
  IN CASE kind = "stdIntCast" -> {from.dom, to.dom} = {"int", "std"} /\ sameWidth
       [] kind = "analogInOutCast" -> {from.dom, to.dom} = {"analog", "inout"} /\ sameWidth
       [] kind = "asPassive" ->
            from.dom \in {"int", "flip"} /\ to = [from EXCEPT !.dom = "int"]
       [] kind = "asNonPassive" ->
            from.dom = "int" /\ to = [from EXCEPT !.dom = "flip"]

ConversionTypes == UNION {TypesOf(d) : d \in {"int", "flip", "std", "inout", "analog"}}

\* A block argument of any type.
TypedArg(ty) == [Arg(ty.sgn, ty.w, ty.w) EXCEPT !.dom = ty.dom]

\* g with one more conversion of v to every type the verifier accepts.
WithConversion(g, kind, v) ==
  {g @@ (FreshId(g) :>
           [Node(kind, <<v>>, 0, 0, 0, ty.sgn, ty.w, 0, 0) EXCEPT !.dom = ty.dom]) :
     ty \in {t \in ConversionTypes :
               LegalConversion(kind, [dom |-> g[v].dom, sgn |-> g[v].sgn, w |-> g[v].w], t)}}

\* user <- outer(x) and user <- outer(inner(x))
ConversionGraphs ==
  UNION {WithConversion(Graph(<<Output(2), TypedArg(ty)>>), outer, 1) :
           outer \in ConversionKinds, ty \in ConversionTypes}
    \union
  UNION {UNION {{[h EXCEPT ![0] = Output(3)] : h \in WithConversion(g, outer, 2)} :
                  g \in WithConversion(Graph(<<Output(2), TypedArg(ty)>>), inner, 1)} :
           inner \in ConversionKinds, outer \in ConversionKinds, ty \in ConversionTypes}

InitialGraphs ==
  UnaryGraphs \union BinaryGraphs \union MuxGraphs \union ChainGraphs \union CatGraphs
    \union ConversionGraphs

Init ==
  /\ nodes \in InitialGraphs
  /\ worklist = Ops(nodes)
  /\ dirty = FALSE
  /\ passes = 0
  /\ pc = "run"
  /\ last = Idle

\* ------------------------------------------------------------- the driver
\* The driver turns a fold result into a value: an existing one, or a new
\* constant of the operation's result type that holds the attribute.
materialize(g, n, r) ==
  IF r.tag = "value" THEN Built(g, r.id)
  ELSE Built(g @@ (FreshId(g) :> Const(g[n].sgn, g[n].w, r.bw, r.val)), FreshId(g))

Visited(n) ==
  /\ worklist' = worklist \ {n}
  /\ UNCHANGED <<passes, pc>>

\* The visit of operation n of the given kind whose fold hook gave r # NoFold:
\* the uses of n are redirected to the folded value and n is erased.
Folded(n, kind, r) ==
  /\ pc = "run"
  /\ n \in worklist
  /\ nodes[n].kind = kind
  /\ r.tag # "none"
  /\ LET m == materialize(nodes, n, r)
     IN /\ nodes' = replaceOp(m.g, n, m.v)
        /\ last' = [status |-> "folded", n |-> n, op |-> nodes[n], res |-> r,
                    replaced |-> TRUE, repl |-> m.v, changed |-> TRUE]
  /\ dirty' = TRUE
  /\ Visited(n)

\* The visit of operation n whose fold hook gave nothing and whose pattern
\* reported success.
Canonicalized(n, kind, rw) ==
  /\ pc = "run"
  /\ n \in worklist
  /\ nodes[n].kind = kind
  /\ fold(nodes, n).tag = "none"
  /\ rw.matched
  /\ nodes' = rw.g
  /\ last' = [status |-> "matched", n |-> n, op |-> nodes[n], res |-> NoFold,
              replaced |-> rw.replaced, repl |-> rw.repl, changed |-> rw.g # nodes]
  /\ dirty' = TRUE
  /\ Visited(n)

DivFold(n) == Folded(n, "div", DivPrimOp_fold(nodes, n))
AndFold(n) == Folded(n, "and", AndPrimOp_fold(nodes, n))
OrFold(n) == Folded(n, "or", OrPrimOp_fold(nodes, n))
XorFold(n) == Folded(n, "xor", XorPrimOp_fold(nodes, n))
EQFold(n) == Folded(n, "eq", EQPrimOp_fold(nodes, n))
NEQFold(n) == Folded(n, "neq", NEQPrimOp_fold(nodes, n))
AsSIntFold(n) == Folded(n, "asSInt", AsSIntPrimOp_fold(nodes, n))
AsUIntFold(n) == Folded(n, "asUInt", AsUIntPrimOp_fold(nodes, n))
BitsFold(n) == Folded(n, "bits", BitsPrimOp_fold(nodes, n))
MuxFold(n) == Folded(n, "mux", MuxPrimOp_fold(nodes, n))
PadFold(n) == Folded(n, "pad", PadPrimOp_fold(nodes, n))
ShlFold(n) == Folded(n, "shl", ShlPrimOp_fold(nodes, n))
ShrFold(n) == Folded(n, "shr", ShrPrimOp_fold(nodes, n))
StdIntCastFold(n) == Folded(n, "stdIntCast", StdIntCastOp_fold(nodes, n))
AnalogInOutCastFold(n) == Folded(n, "analogInOutCast", AnalogInOutCastOp_fold(nodes, n))
AsPassiveFold(n) == Folded(n, "asPassive", AsPassivePrimOp_fold(nodes, n))
AsNonPassiveFold(n) == Folded(n, "asNonPassive", AsNonPassivePrimOp_fold(nodes, n))

CatCanonicalize(n) == Canonicalized(n, "cat", CatPrimOp_matchAndRewrite(nodes, n))
BitsCanonicalize(n) == Canonicalized(n, "bits", BitsPrimOp_matchAndRewrite(nodes, n))
HeadCanonicalize(n) == Canonicalized(n, "head", HeadPrimOp_matchAndRewrite(nodes, n))
ShrCanonicalize(n) == Canonicalized(n, "shr", ShrPrimOp_matchAndRewrite(nodes, n))
TailCanonicalize(n) == Canonicalized(n, "tail", TailPrimOp_matchAndRewrite(nodes, n))

\* Neither the fold hook nor the pattern applies: the operation stays.
NoChange(n) ==
  /\ pc = "run"
  /\ n \in worklist
  /\ fold(nodes, n).tag = "none"
  /\ ~canonicalize(nodes, n).matched
  /\ last' = [status |-> "unmatched", n |-> n, op |-> nodes[n], res |-> NoFold,
              replaced |-> FALSE, repl |-> 0,
              changed |-> canonicalize(nodes, n).g # nodes]
  /\ nodes' = canonicalize(nodes, n).g
  /\ UNCHANGED dirty
  /\ Visited(n)

\* The sweep reported a change: the driver sweeps the operations again.
Resweep ==
  /\ pc = "run"
  /\ worklist = {}
  /\ dirty
  /\ passes < MaxPasses
  /\ passes' = passes + 1
  /\ worklist' = Ops(nodes)
  /\ dirty' = FALSE
  /\ UNCHANGED <<nodes, pc, last>>

\* A sweep in which nothing reported a change: the fixpoint.
Converged ==
  /\ pc = "run"
  /\ worklist = {}
  /\ ~dirty
  /\ pc' = "done"
  /\ UNCHANGED <<nodes, worklist, dirty, passes, last>>

Next ==
  \/ \E n \in worklist : DivFold(n)
  \/ \E n \in worklist : AndFold(n)
  \/ \E n \in worklist : OrFold(n)
  \/ \E n \in worklist : XorFold(n)
  \/ \E n \in worklist : EQFold(n)
  \/ \E n \in worklist : NEQFold(n)
  \/ \E n \in worklist : AsSIntFold(n)
  \/ \E n \in worklist : AsUIntFold(n)
  \/ \E n \in worklist : BitsFold(n)
  \/ \E n \in worklist : MuxFold(n)
  \/ \E n \in worklist : PadFold(n)
  \/ \E n \in worklist : ShlFold(n)
  \/ \E n \in worklist : ShrFold(n)
  \/ \E n \in worklist : StdIntCastFold(n)
  \/ \E n \in worklist : AnalogInOutCastFold(n)
  \/ \E n \in worklist : AsPassiveFold(n)
  \/ \E n \in worklist : AsNonPassiveFold(n)
  \/ \E n \in worklist : CatCanonicalize(n)
  \/ \E n \in worklist : BitsCanonicalize(n)
  \/ \E n \in worklist : HeadCanonicalize(n)
  \/ \E n \in worklist : ShrCanonicalize(n)
  \/ \E n \in worklist : TailCanonicalize(n)
  \/ \E n \in worklist : NoChange(n)
  \/ Resweep
  \/ Converged

Spec == Init /\ [][Next]_vars

\* ------------------------------------------------------------ scenarios
\* g with one more operation.
Add(g, kind, ops, hi, lo) == g @@ (FreshId(g) :> Op(g, kind, ops, hi, lo, 0))

\* user <- bits(bits(x, 7, 4), 2, 1), x of w bits
NestedBits(s, w) ==
  Add(Add(Graph(<<Output(3), Arg(s, w, w)>>), "bits", <<1>>, 7, 4), "bits", <<2>>, 2, 1)

\* user <- bits(cat(bits(x, 7, 4), bits(x, 3, 0)), 7, 0), x of 8 bits
CatOfBits(s) ==
  Add(Add(Add(Add(Graph(<<Output(5), Arg(s, 8, 8)>>), "bits", <<1>>, 7, 4),
              "bits", <<1>>, 3, 0),
          "cat", <<2, 3>>, 0, 0),
      "bits", <<4>>, 7, 0)

ScenarioGraphs ==
  {NestedBits(s, w) : s \in BOOLEAN, w \in 8..(8 + ExtraWidth)}
    \union {CatOfBits(s) : s \in BOOLEAN}

InitScenario ==
  /\ nodes \in ScenarioGraphs
  /\ worklist = Ops(nodes)
  /\ dirty = FALSE
  /\ passes = 0
  /\ pc = "run"
  /\ last = Idle

\* The scenarios hold bits and cat operations only.
NextScenario ==
  \/ \E n \in worklist : BitsFold(n)
  \/ \E n \in worklist : CatCanonicalize(n)
  \/ \E n \in worklist : BitsCanonicalize(n)
  \/ \E n \in worklist : NoChange(n)
  \/ Resweep
  \/ Converged

SpecScenario == InitScenario /\ [][NextScenario]_vars

\* ------------------------------------------------------------ properties
\* The graph before the last visit, as far as the visited operation reaches:
\* a visit erases at most the operation it visits and leaves its operands be.
Before == (last.n :> last.op) @@ nodes

\* A step that visits an operation (a sweep boundary never shrinks the worklist).
VisitStep == worklist' # worklist /\ worklist' \subseteq worklist

RECURSIVE Sum(_, _)
Sum(f, S) ==
  IF S = {} THEN 0
  ELSE LET x == CHOOSE y \in S : TRUE IN f[x] + Sum(f, S \ {x})

\* Operators in a fixed order: head, tail, shr and cat above bits and the casts.
Rank(kind) ==
  CASE kind \in {"head", "tail", "shr", "cat"} -> 3
    [] kind \in LeafKinds \union {"output"} -> 0
    [] OTHER -> 1

\* Operations on the longest operand chain below v.
RECURSIVE ChainDepth(_, _)
ChainDepth(g, v) ==
  IF ~IsOp(g[v]) THEN 0
  ELSE 1 + Sum([j \in DOMAIN g[v].ops |-> ChainDepth(g, g[v].ops[j])], DOMAIN g[v].ops)

\* A well-founded measure of the graph: the ranks of its operations first,
\* their operand chain depths second.
Measure(g) ==
  100 * Sum([v \in DOMAIN g |-> Rank(g[v].kind)], DOMAIN g)
    + Sum([v \in DOMAIN g |-> ChainDepth(g, v)], DOMAIN g \ {0})

\* C1: every canonicalization that reports success strictly decreases a
\* well-founded measure of the graph, so re-invoking fold and canonicalize for
\* as long as a change is reported reaches a fixpoint.
C1_SuccessShrinksMeasure ==
  [][(VisitStep /\ last'.status = "matched") => Measure(nodes') < Measure(nodes)]_vars

\* C2: a rule reports 'matched' exactly when it replaced the operation in that
\* step; an unmatched rule leaves the graph as it was.
C2_MatchedIffReplaced ==
  /\ last.status = "matched" => last.replaced /\ last.changed
  /\ last.status = "unmatched" => ~last.replaced /\ ~last.changed

\* C3: a fold that materializes a constant gives it the statically known width
\* of the operation's result type, and materializes none when that width is
\* unknown.
C3_ConstantHasKnownResultWidth ==
  last.status = "folded" /\ last.res.tag = "attr" =>
    last.op.w # Unknown /\ last.res.bw = last.op.w

\* C4: no fold materializes a constant of width 0, and the payload of every
\* materialized constant fits in its width.
C4_NoZeroWidthConstant ==
  last.status = "folded" /\ last.res.tag = "attr" =>
    last.res.bw > 0 /\ last.res.val < Pow2(last.res.bw)

\* The width and the pattern of the value the last fold put in place of the
\* operation: those of the attribute, or of the existing value.
FoldedWidth == IF last.res.tag = "attr" THEN last.res.bw ELSE Width(nodes, last.res.id)
FoldedPattern(env) ==
  IF last.res.tag = "attr" THEN last.res.val ELSE Eval(nodes, last.res.id, env)
FoldedNum(env) ==
  Num(nodes[last.repl].sgn, FoldedWidth, FoldedPattern(env))

\* The number the folded operation computes by the reference semantics.
ReferenceNum(env) ==
  Num(last.op.sgn, Width(Before, last.n), Eval(Before, last.n, env))

OperandsOfLast == {last.op.ops[j] : j \in DOMAIN last.op.ops}

\* C5: the value a canonicalization puts in place of an operation has the
\* operation's declared result type, width and signedness.
C5_ReplacementKeepsType ==
  last.status = "matched" /\ last.replaced =>
    TypeOf(nodes[last.repl]) = TypeOf(last.op)

\* head of a signed value that keeps every bit: the slice is skipped and the
\* as-unsigned cast alone makes the type fit.
C5_Witness ==
  /\ last.status = "matched" /\ last.replaced
  /\ last.op.kind = "head"
  /\ nodes[last.repl].kind = "asUInt"
  /\ nodes[nodes[last.repl].ops[1]].kind = "arg"

\* The operation at v is one the verifier accepts: its type is the one the
\* dialect gives it and its slice bounds or amount lie within its input.
LegalOp(g, v) ==
  LET nd == g[v]
  IN /\ TypeOf(nd) = ResultType(nd.kind, [j \in DOMAIN nd.ops |-> TypeOf(g[nd.ops[j]])],
                                nd.hi, nd.lo, nd.amount)
     /\ nd.kind = "bits" => 0 <= nd.lo /\ nd.lo <= nd.hi /\ nd.hi < Width(g, nd.ops[1])
     /\ nd.kind \in {"head", "tail"} => nd.amount <= Width(g, nd.ops[1])

\* Every operation v is computed from is one the verifier accepts, so v has a
\* value under the reference semantics.
RECURSIVE WellFormed(_, _)
WellFormed(g, v) ==
  \/ ~IsOp(g[v])
  \/ /\ g[v].kind \in CastKinds \/ LegalOp(g, v)
     /\ \A j \in DOMAIN g[v].ops : WellFormed(g, g[v].ops[j])

\* C6: the value a canonicalization puts in place of an operation is a value
\* of the width and, for every input, of the bits of the operation it replaces.
C6_ReplacementKeepsValue ==
  last.status = "matched" /\ last.replaced /\ WellFormed(Before, last.n) =>
    /\ WellFormed(nodes, last.repl)
    /\ Width(nodes, last.repl) = Width(Before, last.n)
    /\ \A env \in Envs(Before) :
         Eval(nodes, last.repl, env) = Eval(Before, last.n, env)

ConstantFoldKinds ==
  {"and", "or", "xor", "eq", "neq", "asSInt", "asUInt", "bits", "mux", "pad", "shl", "shr"}

\* C7: a fold of an operation on constants gives nothing or a constant equal,
\* in width and in bits, to what the reference semantics computes.
C7_ConstantFoldMatchesReference ==
  /\ last.status = "folded"
  /\ last.op.kind \in ConstantFoldKinds
  /\ \A v \in OperandsOfLast : nodes[v].kind = "const"
  => \A env \in Envs(Before) :
       /\ FoldedWidth = Width(Before, last.n)
       /\ FoldedPattern(env) = Eval(Before, last.n, env)

\* shr of a negative signed constant was folded: the sign bit was shifted in.
C7_Witness ==
  /\ last.status = "folded" /\ last.res.tag = "attr"
  /\ last.op.kind = "shr" /\ last.op.sgn
  /\ nodes[last.op.ops[1]].kind = "const"
  /\ last.op.amount >= nodes[last.op.ops[1]].w
  /\ last.res.val = 1

IdentityFoldKinds == {"div", "and", "or", "xor", "eq", "neq"}

\* C8: an identity fold on a non-constant operand gives the number the
\* operation computes, for every value of the operand for which the operation
\* is defined; and div(x, x) folds to the constant 1.
C8_IdentityFoldsValid ==
  /\ last.status = "folded"
  /\ last.op.kind \in IdentityFoldKinds
  /\ \E v \in OperandsOfLast : nodes[v].kind = "arg"
  => /\ \A env \in Envs(Before) :
          Defined(Before, last.n, env) => FoldedNum(env) = ReferenceNum(env)
     /\ last.op.kind = "div" /\ last.op.ops[1] = last.op.ops[2] =>
          /\ last.res.tag = "attr"
          /\ last.res.val < Pow2(last.res.bw)
          /\ Num(last.op.sgn, last.res.bw, last.res.val) = 1

\* The last visit canonicalized bits(bits(x, 7, 4), 2, 1).
NestedBitsRewritten ==
  /\ last.status = "matched" /\ last.replaced
  /\ last.op.kind = "bits" /\ last.op.hi = 2 /\ last.op.lo = 1
  /\ nodes[last.op.ops[1]].kind = "bits"
  /\ nodes[last.op.ops[1]].hi = 7 /\ nodes[last.op.ops[1]].lo = 4
  /\ nodes[nodes[last.op.ops[1]].ops[1]].kind = "arg"

\* The replacement is bits(x, hi, lo) on the block argument x.
ReplacedByBitsOfArg(hi, lo) ==
  /\ nodes[last.repl].kind = "bits"
  /\ nodes[last.repl].hi = hi /\ nodes[last.repl].lo = lo
  /\ nodes[nodes[last.repl].ops[1]].kind = "arg"

\* C9 as stated: bits(bits(x, 7, 4), 2, 1) canonicalizes to bits(x, 5, 4).
C9_NestedBitsIs5to4 ==
  NestedBitsRewritten => ReplacedByBitsOfArg(5, 4)

\* C9 as amended: bits(bits(x, 7, 4), 2, 1) canonicalizes to bits(x, 6, 5), and
\* both select the same bits of every x of at least 8 bits.
C9_NestedBitsIs6to5 ==
  NestedBitsRewritten =>
    /\ ReplacedByBitsOfArg(6, 5)
    /\ \A env \in Envs(Before) :
         Eval(nodes, last.repl, env) = Eval(Before, last.n, env)

\* C9 witness: the nested slice was rewritten to a slice with high bit 6.
C9_Witness == NestedBitsRewritten /\ nodes[last.repl].hi = 6

\* The graph began as bits(cat(bits(x, 7, 4), bits(x, 3, 0)), 7, 0): the slice
\* bits(x, 3, 0) is node 3 and is never rewritten.
CatScenario ==
  /\ 3 \in DOMAIN nodes
  /\ nodes[3].kind = "bits" /\ nodes[3].hi = 3 /\ nodes[3].lo = 0

\* C10 as stated: for an 8-bit x the scenario ends, after at most 2 rewrite
\* passes, with the user reading x itself.
C10_CatOfBitsEndsInX ==
  CatScenario => passes <= 2 /\ (pc = "done" => Root(nodes) = 1)

\* C10 as amended: the same for an unsigned 8-bit x.
C10_UnsignedCatOfBitsEndsInX ==
  CatScenario /\ ~nodes[1].sgn => passes <= 2 /\ (pc = "done" => Root(nodes) = 1)

\* C10 witness: the scenario on an unsigned x ended in x after 2 passes.
C10_Witness ==
  CatScenario /\ ~nodes[1].sgn /\ pc = "done" /\ Root(nodes) = 1 /\ passes = 2

\* C11: a fold that returns an existing value (an operand, or the operand of
\* an inverse conversion) returns a value whose type is the declared result
\* type of the folded operation.
C11_FoldedValueHasResultType ==
  last.status = "folded" /\ last.res.tag = "value" =>
    TypeOf(nodes[last.repl]) = TypeOf(last.op)

====
